---- MODULE Spec2Model ----
(***************************************************************************)
(* A model of the ui_apps_sdk child-frame client.                          *)
(*                                                                         *)
(*   Spec      the DDClient facade of src/src/client.ts: the handshake,    *)
(*             the context Deferred, on / triggerEvent / getContext, the   *)
(*             host's init and handleEvent callbacks, and the SDK-level    *)
(*             init() singleton.  The capability managers are not part of  *)
(*             the sources at hand; they follow the abstract contract.     *)
(*   SpecMock  the MockFramePostChildClient of src/src/utils/testUtils.ts  *)
(*             (context, subscriptions, send, request) with the modal      *)
(*             client of src/unnamed/part_001 on top of it, and            *)
(*             validateKey.                                                *)
(*   SpecGate  isEventEnabled and the memoized getFeatureTypesByEvent of   *)
(*             src/src/utils/testUtils.ts, over a family of feature        *)
(*             registries and always-enabled sets.                         *)
(***************************************************************************)
EXTENDS Integers, Sequences, FiniteSets, TLC

(***************************************************************************)
(* Bounds                                                                  *)
(***************************************************************************)
\* calls made by the application and by the host in one run of the facade
MaxCalls == 5

\* calls made on the mock transport and the modal client in one run
MaxMockCalls == 4

\* length of the enabledFeatures list handed to isEventEnabled
MaxFeatures == 2

(***************************************************************************)
(* Values                                                                  *)
(***************************************************************************)
NoValue == "undefined"

DASHBOARD_COG_MENU == "dashboard_cog_menu"
APP_ROUTING == "app_routing"
MODALS == "modals"

DASHBOARD_COG_MENU_CLICK == "dashboard_cog_menu_click"
RELOAD_FRAME == "reload_frame"
CONTEXT_CHANGE == "context_change"
UNKNOWN_EVENT == "unknown_event"

\* the context of the test utilities: features: [DASHBOARD_COG_MENU], debug: true
mockContext == [app |-> [features |-> <<DASHBOARD_COG_MENU>>, debug |-> TRUE]]

\* a second context a host may supply: another feature grant
routingContext == [app |-> [features |-> <<APP_ROUTING>>, debug |-> FALSE]]

\* the contexts the host hands to init
Contexts == {mockContext, routingContext}

\* payloads of events: the default {} of triggerEvent and the payload of the tests
EmptyData == [data |-> NoValue]
EventData == {EmptyData, [data |-> "new context"]}

\* payloads of the events the host sends
HostEventData == {[data |-> "new context"]}

\* handler functions of the application
Handlers == {"h1", "h2"}

\* the host names and options of the client
STAGE == "STAGE"
DEFAULT_OPTIONS == [host |-> STAGE, debug |-> FALSE]
\* an absent debug option is as good as false: options.debug || DEFAULT_OPTIONS.debug
ClientOptions == {[host |-> NoValue, debug |-> FALSE],
                  [host |-> "PROD", debug |-> TRUE]}

\* the request types of the modal client
OPEN_MODAL == "open_modal"
CLOSE_MODAL == "close_modal"

\* the context of the modal tests: mockContext with features: [MODALS]
modalsContext == [app |-> [features |-> <<MODALS>>, debug |-> TRUE]]

\* what init() of the mock may be given as override: nothing, or a context
NoOverride == [override |-> NoValue]
Overrides == {NoOverride, modalsContext}

\* arguments of modal.open: definitions with a key, with an empty key, with no key
ModalDefinitions == {[type |-> "object", key |-> "my-modal", source |-> "modal.html"],
                     [type |-> "object", key |-> "", source |-> "modal.html"],
                     [type |-> "object", key |-> NoValue, source |-> "modal.html"]}

\* arguments of modal.close: keys
ModalKeys == {[type |-> "string", value |-> "my-modal"], [type |-> "string", value |-> ""]}

\* event types the tests hand to the mock
MockEventTypes == {DASHBOARD_COG_MENU_CLICK, CONTEXT_CHANGE}

\* event types the application and the host may name
EventTypes == {DASHBOARD_COG_MENU_CLICK, RELOAD_FRAME, CONTEXT_CHANGE, UNKNOWN_EVENT}

(***************************************************************************)
(* The capability managers the facade instantiates (./capabilites)         *)
(***************************************************************************)
capabilityManagers ==
    << [type |-> DASHBOARD_COG_MENU,
        eventsToSubscribe |-> <<DASHBOARD_COG_MENU_CLICK>>,
        eventsToTrigger |-> <<>>],
       [type |-> APP_ROUTING,
        eventsToSubscribe |-> <<>>,
        eventsToTrigger |-> <<RELOAD_FRAME>>] >>

Includes(list, x) == \E i \in 1..Len(list) : list[i] = x

(***************************************************************************)
(* Deferred                                                                *)
(***************************************************************************)
\* what stands for the value of a promise that has not settled
NoContext == [context |-> "none yet"]

defer == [state |-> "PENDING", value |-> NoContext]

\* a second resolution overwrites the first
DeferredResolveAgain(d, v) == [state |-> "RESOLVED", value |-> v]

\* resolve of the promise: the first settlement wins, later ones are ignored
DeferredResolve(d, v) ==
    IF d.state = "PENDING" THEN [state |-> "RESOLVED", value |-> v] ELSE d

\* any granted feature counts, whichever was asked for
isFeatureEnabledAny(feature, enabledFeatures) == Len(enabledFeatures) > 0

isFeatureEnabled(feature, enabledFeatures) == Includes(enabledFeatures, feature)

(***************************************************************************)
(* State                                                                   *)
(***************************************************************************)
VARIABLES
    sdkClient,      \* the SDK's module-level client: 0 (undefined) or an instance
    instances,      \* the DDClient instances constructed, with their options
    handshake,      \* the Postmate.Model promise: "pending" or "resolved"
    context,        \* DDClient.context, a Deferred
    increment,      \* the counter of uniqueInt
    subscriptions,  \* the managers' registrations: records [id, eventType, handler]
    initQueue,      \* init() calls suspended at `await this.handshake`
    ctxQueue,       \* continuations suspended on context.promise, in order
    gets,           \* the getContext() calls made and what each one yielded
    delivered,      \* the contexts passed to context.resolve, in order
    sent,           \* what reached the transport's send primitive
    invoked,        \* the handler invocations, in order
    rejections,     \* rejections of promises nobody holds
    unsubFns,       \* the unsubscribe functions returned to the application
    unsubCalled,    \* the calls of those functions, in order
    triggered,      \* the triggerEvent calls that found a manager, in order
    lastChange,     \* the payload of the latest context-change event that came in
                    \* after the context was resolved
    received,       \* how many inbound events handleEvent has passed to a manager
    lastRead,       \* the context a manager last checked its feature against
    lastCall,       \* the last call of the public surface and how it ended
    ncalls          \* calls made so far

clientVars == <<sdkClient, instances, handshake, context, increment, subscriptions,
                initQueue, ctxQueue, gets, delivered, sent, invoked, rejections,
                unsubFns, unsubCalled, triggered, lastChange, received, lastRead,
                lastCall, ncalls>>

VARIABLES
    fpContext,        \* MockFramePostChildClient.context, a Deferred
    fpSubscriptions,  \* subscriptions: per event type undefined or {id: handler}
    fpSendCallBack,   \* sendCallBack: undefined or the mock function
    fpSends,          \* the calls sendCallBack has received
    fpRequests,       \* the calls request() has received
    fpRan,            \* the handlers mockEvent has run, in order
    fpUnsubFns,       \* the unsubscribe functions on() has returned
    fpUnsubCalled,    \* the calls of those functions, in order
    modalCalls        \* the calls of modal.open / modal.close and how each ended

mockVars == <<fpContext, fpSubscriptions, fpSendCallBack, fpSends, fpRequests, fpRan,
              fpUnsubFns, fpUnsubCalled, modalCalls>>

\* the state of the facade that the mock's operations leave alone
facadeOnly == <<sdkClient, instances, handshake, context, subscriptions, initQueue,
                ctxQueue, gets, delivered, sent, invoked, rejections, unsubFns,
                unsubCalled, triggered, lastChange, received, lastRead>>

VARIABLES
    features,        \* the feature registry: definitions [type, events]
    enabledEvents,   \* the always-enabled events
    memo,            \* the memoize closure of getFeatureTypesByEvent: executed, value
    gateCall         \* the last isEventEnabled call and its result

gateVars == <<features, enabledEvents, memo, gateCall>>

vars == <<clientVars, mockVars, gateVars>>

NoCall == [op |-> "none"]
NoChange == [data |-> "none yet"]
NoRead == [read |-> "none yet"]

InitClient ==
    /\ sdkClient = 0
    /\ instances = <<>>
    /\ handshake = "pending"
    /\ context = defer
    /\ received = 0
    /\ lastRead = NoRead
    /\ increment = 0
    /\ subscriptions = {}
    /\ initQueue = <<>>
    /\ ctxQueue = <<>>
    /\ gets = <<>>
    /\ delivered = <<>>
    /\ sent = <<>>
    /\ invoked = <<>>
    /\ rejections = <<>>
    /\ unsubFns = {}
    /\ unsubCalled = <<>>
    /\ triggered = <<>>
    /\ lastChange = NoChange
    /\ lastCall = NoCall
    /\ ncalls = 0

\* subscriptions[eventType]: undefined, or an object of handlers by id
NoEntry == [defined |-> FALSE, handlers |-> {}]
Entry(handlers) == [defined |-> TRUE, handlers |-> handlers]

\* the mock after its constructor
InitMock ==
    /\ fpContext = defer
    /\ fpSubscriptions = [e \in MockEventTypes |-> NoEntry]
    /\ fpSendCallBack = NoValue
    /\ fpSends = <<>>
    /\ fpRequests = <<>>
    /\ fpRan = <<>>
    /\ fpUnsubFns = {}
    /\ fpUnsubCalled = <<>>
    /\ modalCalls = <<>>

\* the registry that goes with the managers above
defaultFeatures ==
    << [type |-> DASHBOARD_COG_MENU, events |-> <<DASHBOARD_COG_MENU_CLICK>>],
       [type |-> APP_ROUTING, events |-> <<RELOAD_FRAME>>] >>

\* memoize before the first call: executed = false, no value
NoMemo == [executed |-> FALSE, value |-> <<>>]

InitGateFixed ==
    /\ features = defaultFeatures
    /\ enabledEvents = {CONTEXT_CHANGE}
    /\ memo = NoMemo
    /\ gateCall = NoCall

Init == InitClient /\ InitMock /\ InitGateFixed

Constructed == Len(instances) >= 1
CanCall == Constructed /\ ncalls < MaxCalls


(***************************************************************************)
(* Helpers of the facade and of the managers                               *)
(***************************************************************************)
\* uniqueInt: increment++, return increment
uniqueInt(inc) == inc + 1

\* constructor: options.host || DEFAULT_OPTIONS.host, options.debug || DEFAULT_OPTIONS.debug
DDClientConstructor(options) ==
    [host |-> IF options.host = NoValue THEN DEFAULT_OPTIONS.host ELSE options.host,
     debug |-> options.debug \/ DEFAULT_OPTIONS.debug,
     context |-> defer,
     handshake |-> "pending"]

SubscribesTo(eventType, manager) == Includes(manager.eventsToSubscribe, eventType)
Triggers(eventType, manager) == Includes(manager.eventsToTrigger, eventType)

\* the lookups with the two lists taken for one another
getManagerByEventToSubscribeTypeOtherList(eventType) ==
    LET found == {i \in 1..Len(capabilityManagers) :
                     Triggers(eventType, capabilityManagers[i])}
    IN IF found = {} THEN 0 ELSE CHOOSE i \in found : \A j \in found : i <= j

getManagerByEventToTriggerTypeOtherList(eventType) ==
    LET found == {i \in 1..Len(capabilityManagers) :
                     SubscribesTo(eventType, capabilityManagers[i])}
    IN IF found = {} THEN 0 ELSE CHOOSE i \in found : \A j \in found : i <= j

\* Array.prototype.find over the managers: the index of the first manager whose
\* list includes the event type, 0 for undefined
getManagerByEventToSubscribeType(eventType) ==
    LET found == {i \in 1..Len(capabilityManagers) :
                     SubscribesTo(eventType, capabilityManagers[i])}
    IN IF found = {} THEN 0 ELSE CHOOSE i \in found : \A j \in found : i <= j

getManagerByEventToTriggerType(eventType) ==
    LET found == {i \in 1..Len(capabilityManagers) :
                     Triggers(eventType, capabilityManagers[i])}
    IN IF found = {} THEN 0 ELSE CHOOSE i \in found : \A j \in found : i <= j

\* the unsubscribe functions: the facade's `() => {}` and a manager's
NoopFn == [kind |-> "noop", id |-> 0]
ManagerUnsubscribeFn(id) == [kind |-> "unsubscribe", id |-> id]

\* manager.subscribeHandler: one more registration under a fresh id
subscribeHandler(subs, id, m, eventType, handler) ==
    subs \cup {[id |-> id, manager |-> m, eventType |-> eventType, handler |-> handler]}

\* the function subscribeHandler returns: removes the registration of that id
ManagerUnsubscribe(subs, id) == {s \in subs : s.id # id}

\* the manager's own check: is its feature in the context's feature list
ManagerIsEnabled(m, ctx) == isFeatureEnabled(capabilityManagers[m].type, ctx.app.features)

\* the registrations of one event type, in the order of their ids
RECURSIVE InIdOrder(_)
InIdOrder(regs) ==
    IF regs = {} THEN <<>>
    ELSE LET first == CHOOSE r \in regs : \A q \in regs : r.id <= q.id
         IN <<first>> \o InIdOrder(regs \ {first})

(***************************************************************************)
(* The SDK's init(): creates the client on the first call only             *)
(***************************************************************************)
SdkInitAlwaysNew(options) ==
    /\ ncalls < MaxCalls
    /\ instances' = Append(instances, DDClientConstructor(options))
    /\ sdkClient' = Len(instances')
    /\ lastCall' = [op |-> "init", options |-> options, threw |-> FALSE, ret |-> sdkClient']
    /\ ncalls' = ncalls + 1
    /\ UNCHANGED <<mockVars, gateVars>>
    /\ UNCHANGED <<received, lastRead, triggered, lastChange, handshake, context, increment,
                   subscriptions, initQueue, ctxQueue, gets, delivered, sent, invoked,
                   rejections, unsubFns, unsubCalled>>

SdkInit(options) ==
    /\ ncalls < MaxCalls
    /\ IF sdkClient = 0
       THEN /\ instances' = Append(instances, DDClientConstructor(options))
            /\ sdkClient' = Len(instances')
       ELSE UNCHANGED <<instances, sdkClient>>
    /\ lastCall' = [op |-> "init", options |-> options, threw |-> FALSE, ret |-> sdkClient']
    /\ ncalls' = ncalls + 1
    /\ UNCHANGED <<mockVars, gateVars>>
    /\ UNCHANGED <<received, lastRead, triggered, lastChange, handshake, context, increment,
                   subscriptions, initQueue, ctxQueue, gets, delivered, sent, invoked,
                   rejections, unsubFns, unsubCalled>>

(***************************************************************************)
(* The transport: the handshake promise of Postmate.Model settles          *)
(***************************************************************************)
HandshakeResolve ==
    /\ Constructed
    /\ handshake = "pending"
    /\ handshake' = "resolved"
    /\ UNCHANGED <<mockVars, gateVars>>
    /\ UNCHANGED <<received, lastRead, triggered, lastChange, sdkClient, instances, context,
                   increment, subscriptions, initQueue, ctxQueue, gets, delivered, sent,
                   invoked, rejections, unsubFns, unsubCalled, lastCall, ncalls>>

(***************************************************************************)
(* DDClient.on                                                             *)
(***************************************************************************)
On(eventType, handler) ==
    /\ CanCall
    /\ LET m == getManagerByEventToSubscribeType(eventType) IN
       IF m = 0
       THEN /\ lastCall' = [op |-> "on", eventType |-> eventType, threw |-> FALSE,
                            logged |-> "Unknown event type", ret |-> NoopFn]
            /\ unsubFns' = unsubFns \cup {NoopFn}
            /\ UNCHANGED <<increment, subscriptions>>
       ELSE /\ increment' = uniqueInt(increment)
            /\ subscriptions' = subscribeHandler(subscriptions, increment', m, eventType, handler)
            /\ lastCall' = [op |-> "on", eventType |-> eventType, handler |-> handler,
                            threw |-> FALSE, logged |-> NoValue,
                            ret |-> ManagerUnsubscribeFn(increment')]
            /\ unsubFns' = unsubFns \cup {ManagerUnsubscribeFn(increment')}
    /\ ncalls' = ncalls + 1
    /\ UNCHANGED <<mockVars, gateVars>>
    /\ UNCHANGED <<received, lastRead, triggered, lastChange, sdkClient, instances, handshake,
                   context, initQueue, ctxQueue, gets, delivered, sent, invoked, rejections,
                   unsubCalled>>

\* the application calls a function that on() returned
Unsubscribe(fn) ==
    /\ CanCall
    /\ fn \in unsubFns
    /\ subscriptions' = IF fn.kind = "noop" THEN subscriptions
                        ELSE ManagerUnsubscribe(subscriptions, fn.id)
    /\ unsubCalled' = Append(unsubCalled, fn)
    /\ lastCall' = [op |-> "unsubscribe", fn |-> fn, threw |-> FALSE]
    /\ ncalls' = ncalls + 1
    /\ UNCHANGED <<mockVars, gateVars>>
    /\ UNCHANGED <<received, lastRead, triggered, lastChange, sdkClient, instances, handshake,
                   context, increment, initQueue, ctxQueue, gets, delivered, sent, invoked,
                   rejections, unsubFns>>

(***************************************************************************)
(* DDClient.triggerEvent                                                   *)
(***************************************************************************)
\* triggerEvent that forgets to pass the data on
TriggerEventDefaultData(eventType, data) ==
    /\ CanCall
    /\ LET m == getManagerByEventToTriggerType(eventType) IN
       IF m = 0
       THEN /\ lastCall' = [op |-> "triggerEvent", eventType |-> eventType, data |-> data,
                            threw |-> FALSE, logged |-> "Unknown event type", ret |-> NoValue]
            /\ UNCHANGED <<ctxQueue, triggered>>
       ELSE \* manager.triggerEvent(eventType): the data is left behind
            /\ ctxQueue' = Append(ctxQueue, [kind |-> "triggerEvent", manager |-> m,
                                             eventType |-> eventType, data |-> EmptyData])
            /\ triggered' = Append(triggered, [eventType |-> eventType, data |-> data])
            /\ lastCall' = [op |-> "triggerEvent", eventType |-> eventType, data |-> data,
                            threw |-> FALSE, logged |-> NoValue, ret |-> NoValue]
    /\ ncalls' = ncalls + 1
    /\ UNCHANGED <<mockVars, gateVars>>
    /\ UNCHANGED <<received, lastRead, lastChange, sdkClient, instances, handshake, context,
                   increment, subscriptions, initQueue, gets, delivered, sent, invoked,
                   rejections, unsubFns, unsubCalled>>

TriggerEvent(eventType, data) ==
    /\ CanCall
    /\ LET m == getManagerByEventToTriggerType(eventType) IN
       IF m = 0
       THEN /\ lastCall' = [op |-> "triggerEvent", eventType |-> eventType, data |-> data,
                            threw |-> FALSE, logged |-> "Unknown event type", ret |-> NoValue]
            /\ UNCHANGED <<ctxQueue, triggered>>
       ELSE \* manager.triggerEvent(eventType, data): its promise is not kept
            /\ ctxQueue' = Append(ctxQueue, [kind |-> "triggerEvent", manager |-> m,
                                             eventType |-> eventType, data |-> data])
            /\ triggered' = Append(triggered, [eventType |-> eventType, data |-> data])
            /\ lastCall' = [op |-> "triggerEvent", eventType |-> eventType, data |-> data,
                            threw |-> FALSE, logged |-> NoValue, ret |-> NoValue]
    /\ ncalls' = ncalls + 1
    /\ UNCHANGED <<mockVars, gateVars>>
    /\ UNCHANGED <<received, lastRead, lastChange, sdkClient, instances, handshake, context,
                   increment, subscriptions, initQueue, gets, delivered, sent, invoked,
                   rejections, unsubFns, unsubCalled>>

(***************************************************************************)
(* DDClient.getContext                                                     *)
(***************************************************************************)
GetContext ==
    /\ CanCall
    /\ gets' = Append(gets, [before |-> context.state = "PENDING", change |-> lastChange,
                             done |-> FALSE, value |-> NoContext])
    /\ ctxQueue' = Append(ctxQueue, [kind |-> "getContext", index |-> Len(gets) + 1])
    /\ lastCall' = [op |-> "getContext", threw |-> FALSE]
    /\ ncalls' = ncalls + 1
    /\ UNCHANGED <<mockVars, gateVars>>
    /\ UNCHANGED <<received, lastRead, triggered, lastChange, sdkClient, instances, handshake,
                   context, increment, subscriptions, initQueue, delivered, sent, invoked,
                   rejections, unsubFns, unsubCalled>>

(***************************************************************************)
(* DDClient.init, the callback of the host                                 *)
(***************************************************************************)
\* the call: suspends at `await this.handshake`
HostInit(ctx) ==
    /\ CanCall
    /\ initQueue' = Append(initQueue, ctx)
    /\ lastCall' = [op |-> "hostInit", context |-> ctx, threw |-> FALSE]
    /\ ncalls' = ncalls + 1
    /\ UNCHANGED <<mockVars, gateVars>>
    /\ UNCHANGED <<received, lastRead, triggered, lastChange, sdkClient, instances, handshake,
                   context, increment, subscriptions, ctxQueue, gets, delivered, sent,
                   invoked, rejections, unsubFns, unsubCalled>>

\* init that resolves the context without waiting for the handshake
InitResumeNoAwait ==
    /\ initQueue # <<>>
    /\ initQueue' = Tail(initQueue)
    /\ context' = DeferredResolve(context, Head(initQueue))
    /\ delivered' = Append(delivered, Head(initQueue))
    /\ UNCHANGED <<mockVars, gateVars>>
    /\ UNCHANGED <<received, lastRead, triggered, lastChange, sdkClient, instances, handshake,
                   increment, subscriptions, ctxQueue, gets, sent, invoked, rejections,
                   unsubFns, unsubCalled, lastCall, ncalls>>

\* the rest of init once the handshake is there: this.context.resolve(context)
InitResume ==
    /\ handshake = "resolved"
    /\ initQueue # <<>>
    /\ initQueue' = Tail(initQueue)
    /\ context' = DeferredResolve(context, Head(initQueue))
    /\ delivered' = Append(delivered, Head(initQueue))
    /\ UNCHANGED <<mockVars, gateVars>>
    /\ UNCHANGED <<received, lastRead, triggered, lastChange, sdkClient, instances, handshake,
                   increment, subscriptions, ctxQueue, gets, sent, invoked, rejections,
                   unsubFns, unsubCalled, lastCall, ncalls>>

(***************************************************************************)
(* DDClient.handleEvent, the callback of the host                          *)
(***************************************************************************)
\* handleEvent whose manager call overtakes the calls that are still waiting
HostHandleEventNewestFirst(eventType, data) ==
    /\ CanCall
    /\ LET m == getManagerByEventToSubscribeType(eventType) IN
       IF m = 0
       THEN /\ lastCall' = [op |-> "handleEvent", eventType |-> eventType, data |-> data,
                            threw |-> FALSE,
                            logged |-> "Could not handle event: no corresponding manager found"]
            /\ UNCHANGED <<ctxQueue, received>>
       ELSE \* manager.handleEvent({eventType, data}) is called before handleEvent returns
            /\ received' = received + 1
            /\ ctxQueue' = <<[kind |-> "handleEvent", manager |-> m,
                              eventType |-> eventType, data |-> data,
                              seq |-> received']>> \o ctxQueue
            /\ lastCall' = [op |-> "handleEvent", eventType |-> eventType, data |-> data,
                            threw |-> FALSE, logged |-> NoValue]
    /\ lastChange' = IF eventType = CONTEXT_CHANGE /\ context.state = "RESOLVED"
                      THEN data ELSE lastChange
    /\ ncalls' = ncalls + 1
    /\ UNCHANGED <<mockVars, gateVars>>
    /\ UNCHANGED <<lastRead, triggered, sdkClient, instances, handshake, context, increment,
                   subscriptions, initQueue, gets, delivered, sent, invoked, rejections,
                   unsubFns, unsubCalled>>

HostHandleEvent(eventType, data) ==
    /\ CanCall
    /\ LET m == getManagerByEventToSubscribeType(eventType) IN
       IF m = 0
       THEN /\ lastCall' = [op |-> "handleEvent", eventType |-> eventType, data |-> data,
                            threw |-> FALSE,
                            logged |-> "Could not handle event: no corresponding manager found"]
            /\ UNCHANGED <<ctxQueue, received>>
       ELSE \* manager.handleEvent({eventType, data}) is called before handleEvent returns
            /\ received' = received + 1
            /\ ctxQueue' = Append(ctxQueue, [kind |-> "handleEvent", manager |-> m,
                                             eventType |-> eventType, data |-> data,
                                             seq |-> received'])
            /\ lastCall' = [op |-> "handleEvent", eventType |-> eventType, data |-> data,
                            threw |-> FALSE, logged |-> NoValue]
    /\ lastChange' = IF eventType = CONTEXT_CHANGE /\ context.state = "RESOLVED"
                      THEN data ELSE lastChange
    /\ ncalls' = ncalls + 1
    /\ UNCHANGED <<mockVars, gateVars>>
    /\ UNCHANGED <<lastRead, triggered, sdkClient, instances, handshake, context, increment,
                   subscriptions, initQueue, gets, delivered, sent, invoked, rejections,
                   unsubFns, unsubCalled>>

(***************************************************************************)
(* Continuations that waited for context.promise                           *)
(***************************************************************************)
Resumable(kind) ==
    /\ context.state = "RESOLVED"
    /\ ctxQueue # <<>>
    /\ Head(ctxQueue).kind = kind

\* a getContext() whose promise is not the context's: its caller is never resumed
GetContextResumeLost ==
    /\ Resumable("getContext")
    /\ ctxQueue' = Tail(ctxQueue)
    /\ UNCHANGED <<mockVars, gateVars>>
    /\ UNCHANGED <<received, lastRead, triggered, lastChange, sdkClient, instances, handshake,
                   context, increment, subscriptions, initQueue, gets, delivered, sent,
                   invoked, rejections, unsubFns, unsubCalled, lastCall, ncalls>>

\* the caller of getContext() receives the value of the promise
GetContextResume ==
    /\ Resumable("getContext")
    /\ ctxQueue' = Tail(ctxQueue)
    /\ gets' = [gets EXCEPT ![Head(ctxQueue).index] =
                    [@ EXCEPT !.done = TRUE, !.value = context.value]]
    /\ UNCHANGED <<mockVars, gateVars>>
    /\ UNCHANGED <<received, lastRead, triggered, lastChange, sdkClient, instances, handshake,
                   context, increment, subscriptions, initQueue, delivered, sent, invoked,
                   rejections, unsubFns, unsubCalled, lastCall, ncalls>>

\* manager.triggerEvent: send when the manager's feature is enabled, fail otherwise
ManagerTriggerEvent ==
    /\ Resumable("triggerEvent")
    /\ ctxQueue' = Tail(ctxQueue)
    /\ LET t == Head(ctxQueue) IN
       IF ManagerIsEnabled(t.manager, context.value)
       THEN /\ sent' = Append(sent, [eventType |-> t.eventType, data |-> t.data])
            /\ UNCHANGED rejections
       ELSE /\ rejections' = Append(rejections, [error |-> "CapabilityNotEnabledError",
                                                 eventType |-> t.eventType])
            /\ UNCHANGED sent
    /\ lastRead' = [context |-> context.value, change |-> lastChange]
    /\ UNCHANGED <<mockVars, gateVars>>
    /\ UNCHANGED <<received, triggered, lastChange, sdkClient, instances, handshake, context,
                   increment, subscriptions, initQueue, gets, delivered, invoked, unsubFns,
                   unsubCalled, lastCall, ncalls>>

\* manager.handleEvent: run the handlers when the manager's feature is enabled
ManagerHandleEvent ==
    /\ Resumable("handleEvent")
    /\ ctxQueue' = Tail(ctxQueue)
    /\ LET t == Head(ctxQueue)
           regs == InIdOrder({s \in subscriptions : s.eventType = t.eventType})
       IN invoked' = IF ManagerIsEnabled(t.manager, context.value)
                     THEN invoked \o [i \in 1..Len(regs) |->
                                        [id |-> regs[i].id, handler |-> regs[i].handler,
                                         eventType |-> t.eventType, data |-> t.data,
                                         seq |-> t.seq]]
                     ELSE invoked
    /\ lastRead' = [context |-> context.value, change |-> lastChange]
    /\ UNCHANGED <<mockVars, gateVars>>
    /\ UNCHANGED <<received, triggered, lastChange, sdkClient, instances, handshake, context,
                   increment, subscriptions, initQueue, gets, delivered, sent, rejections,
                   unsubFns, unsubCalled, lastCall, ncalls>>

Next ==
    \/ \E options \in ClientOptions : SdkInit(options)
    \/ HandshakeResolve
    \/ \E eventType \in EventTypes, handler \in Handlers : On(eventType, handler)
    \/ \E fn \in unsubFns : Unsubscribe(fn)
    \/ \E eventType \in EventTypes, data \in EventData : TriggerEvent(eventType, data)
    \/ GetContext
    \/ \E ctx \in Contexts : HostInit(ctx)
    \/ InitResume
    \/ \E eventType \in EventTypes, data \in HostEventData : HostHandleEvent(eventType, data)
    \/ GetContextResume
    \/ ManagerTriggerEvent
    \/ ManagerHandleEvent

Spec == Init /\ [][Next]_vars

\* The event loop runs every continuation that is ready: the rest of an init
\* once the handshake is there, and whatever waits for the context once it is
\* resolved; each of these steps takes its continuation off its queue. The
\* host is under no obligation: neither the handshake nor an init call has to
\* happen.
SpecLive ==
    /\ Init
    /\ [][Next]_vars
    /\ WF_initQueue(InitResume)
    /\ WF_ctxQueue(GetContextResume)
    /\ WF_ctxQueue(ManagerTriggerEvent)
    /\ WF_ctxQueue(ManagerHandleEvent)


(***************************************************************************)
(* MockFramePostChildClient                                                *)
(***************************************************************************)
MockCanCall == ncalls < MaxMockCalls

\* init(override, sendCallBack): this.context.resolve(override || mockContext)
MockInit(override, sendCallBack) ==
    /\ MockCanCall
    /\ fpContext' = DeferredResolve(fpContext, IF override = NoOverride THEN mockContext
                                               ELSE override)
    /\ fpSendCallBack' = sendCallBack
    /\ lastCall' = [op |-> "mock.init", threw |-> FALSE]
    /\ ncalls' = ncalls + 1
    /\ UNCHANGED <<fpSubscriptions, fpSends, fpRequests, fpRan, fpUnsubFns,
                   fpUnsubCalled, modalCalls, increment>>
    /\ UNCHANGED <<facadeOnly, gateVars>>

\* the function on() returns: every registration of the event type but its own
MockUnsubscribeFn(eventType, id) == [kind |-> "unsubscribe", eventType |-> eventType, id |-> id]

\* on(eventType, handler)
MockOn(eventType, handler) ==
    /\ MockCanCall
    /\ increment' = uniqueInt(increment)
    /\ LET subscriptionId == increment'
           present == IF ~fpSubscriptions[eventType].defined THEN Entry({})
                      ELSE fpSubscriptions[eventType]
       IN /\ fpSubscriptions' = [fpSubscriptions EXCEPT ![eventType] =
                 Entry(present.handlers \cup {[id |-> subscriptionId, handler |-> handler]})]
          /\ fpUnsubFns' = fpUnsubFns \cup {MockUnsubscribeFn(eventType, subscriptionId)}
          /\ lastCall' = [op |-> "mock.on", eventType |-> eventType, handler |-> handler,
                          threw |-> FALSE, ret |-> MockUnsubscribeFn(eventType, subscriptionId)]
    /\ ncalls' = ncalls + 1
    /\ UNCHANGED <<fpContext, fpSendCallBack, fpSends, fpRequests, fpRan, fpUnsubCalled,
                   modalCalls>>
    /\ UNCHANGED <<facadeOnly, gateVars>>

\* an unsubscribe function that picks no key out: the registrations stay as they are
MockUnsubscribeKeepsAll(fn) ==
    /\ MockCanCall
    /\ fn \in fpUnsubFns
    /\ fpSubscriptions' = fpSubscriptions
    /\ fpUnsubCalled' = Append(fpUnsubCalled, fn)
    /\ lastCall' = [op |-> "mock.unsubscribe", fn |-> fn, threw |-> FALSE]
    /\ ncalls' = ncalls + 1
    /\ UNCHANGED <<fpContext, fpSendCallBack, fpSends, fpRequests, fpRan, fpUnsubFns,
                   modalCalls, increment>>
    /\ UNCHANGED <<facadeOnly, gateVars>>

\* the application calls a function on() returned:
\* const {[subscriptionId]: _, ...otherSubscriptions} = this.subscriptions[eventType]
MockUnsubscribe(fn) ==
    /\ MockCanCall
    /\ fn \in fpUnsubFns
    /\ fpSubscriptions' = [fpSubscriptions EXCEPT ![fn.eventType] =
                              Entry({r \in @.handlers : r.id # fn.id})]
    /\ fpUnsubCalled' = Append(fpUnsubCalled, fn)
    /\ lastCall' = [op |-> "mock.unsubscribe", fn |-> fn, threw |-> FALSE]
    /\ ncalls' = ncalls + 1
    /\ UNCHANGED <<fpContext, fpSendCallBack, fpSends, fpRequests, fpRan, fpUnsubFns,
                   modalCalls, increment>>
    /\ UNCHANGED <<facadeOnly, gateVars>>

\* send(eventType, data): hands the pair to sendCallBack when there is one
MockSend(eventType, data) ==
    /\ MockCanCall
    /\ fpSends' = IF fpSendCallBack # NoValue
                  THEN Append(fpSends, [eventType |-> eventType, data |-> data])
                  ELSE fpSends
    /\ lastCall' = [op |-> "mock.send", eventType |-> eventType, data |-> data,
                    threw |-> FALSE]
    /\ ncalls' = ncalls + 1
    /\ UNCHANGED <<fpContext, fpSubscriptions, fpSendCallBack, fpRequests, fpRan,
                   fpUnsubFns, fpUnsubCalled, modalCalls, increment>>
    /\ UNCHANGED <<facadeOnly, gateVars>>

\* a handler of the application that throws when it is called
ThrowingHandlers == {"h2"}

\* the calls a forEach over regs makes: it ends at the first handler that throws
RunUntilThrow(regs) ==
    LET throwing == {i \in 1..Len(regs) : regs[i].handler \in ThrowingHandlers}
        last == IF throwing = {} THEN Len(regs)
                ELSE CHOOSE i \in throwing : \A j \in throwing : i <= j
    IN SubSeq(regs, 1, last)

\* mockEvent(eventType, data): Object.values(subscriptions).forEach(s => s(data));
\* nothing catches what a handler throws, so it ends the loop and the call
MockEvent(eventType, data) ==
    /\ MockCanCall
    /\ LET regs == InIdOrder(fpSubscriptions[eventType].handlers)
           called == RunUntilThrow(regs)
           ran == [i \in 1..Len(called) |->
                     [id |-> called[i].id, handler |-> called[i].handler,
                      eventType |-> eventType, data |-> data]]
       IN /\ fpRan' = fpRan \o ran
          /\ lastCall' = [op |-> "mock.mockEvent", eventType |-> eventType, data |-> data,
                          threw |-> (\E i \in 1..Len(regs) :
                                        regs[i].handler \in ThrowingHandlers),
                          ran |-> ran]
    /\ ncalls' = ncalls + 1
    /\ UNCHANGED <<fpContext, fpSubscriptions, fpSendCallBack, fpSends, fpRequests,
                   fpUnsubFns, fpUnsubCalled, modalCalls, increment>>
    /\ UNCHANGED <<facadeOnly, gateVars>>

(***************************************************************************)
(* validateKey                                                             *)
(***************************************************************************)
\* a key that is merely defined counts
isDefinitionWithKeyDefined(defenition) == defenition.key # NoValue

\* !!defenition.key: neither undefined nor the empty string
isDefinitionWithKey(defenition) == defenition.key # NoValue /\ defenition.key # ""

\* "true", "false", or "throw" for Error('Definition missing required field ".key"')
validateKey(definitionOrKey) ==
    IF definitionOrKey.type = "string"
    THEN (IF definitionOrKey.value # "" THEN "true" ELSE "false")
    ELSE IF ~isDefinitionWithKey(definitionOrKey) THEN "throw" ELSE "true"

(***************************************************************************)
(* The modal client on top of MockClient                                   *)
(***************************************************************************)
\* what the modal client hands to request() for a call
ModalRequest(op, arg) ==
    IF op = "open" THEN [eventType |-> OPEN_MODAL, data |-> [definition |-> arg]]
    ELSE [eventType |-> CLOSE_MODAL, data |-> arg.value]

\* a call of modal.open(definition) or modal.close(key).  The payload check may
\* come first and end the call at once, or the call waits for the context.
ModalCall(op, arg) ==
    /\ MockCanCall
    /\ \/ /\ validateKey(arg) # "true"
          /\ modalCalls' = Append(modalCalls, [op |-> op, arg |-> arg, state |-> "rejected",
                                               error |-> "ValidationError"])
       \/ modalCalls' = Append(modalCalls, [op |-> op, arg |-> arg, state |-> "pending",
                                            error |-> NoValue])
    /\ lastCall' = [op |-> "modal", threw |-> FALSE]
    /\ ncalls' = ncalls + 1
    /\ UNCHANGED <<fpContext, fpSubscriptions, fpSendCallBack, fpSends, fpRequests, fpRan,
                   fpUnsubFns, fpUnsubCalled, increment>>
    /\ UNCHANGED <<facadeOnly, gateVars>>

\* the first pending modal call, 0 when there is none
FirstPendingModal ==
    LET pending == {i \in 1..Len(modalCalls) : modalCalls[i].state = "pending"}
    IN IF pending = {} THEN 0 ELSE CHOOSE i \in pending : \A j \in pending : i <= j

\* the call goes on with the context: the feature, then the payload, then request()
ModalResume ==
    /\ fpContext.state = "RESOLVED"
    /\ FirstPendingModal # 0
    /\ LET i == FirstPendingModal
           c == modalCalls[i]
       IN IF ~isFeatureEnabled(MODALS, fpContext.value.app.features)
          THEN /\ modalCalls' = [modalCalls EXCEPT ![i] =
                     [@ EXCEPT !.state = "rejected", !.error = "CapabilityNotEnabledError"]]
               /\ UNCHANGED fpRequests
          ELSE IF validateKey(c.arg) # "true"
          THEN /\ modalCalls' = [modalCalls EXCEPT ![i] =
                     [@ EXCEPT !.state = "rejected", !.error = "ValidationError"]]
               /\ UNCHANGED fpRequests
          ELSE /\ modalCalls' = [modalCalls EXCEPT ![i] = [@ EXCEPT !.state = "resolved"]]
               /\ fpRequests' = Append(fpRequests, [call |-> i] @@ ModalRequest(c.op, c.arg))
    /\ UNCHANGED <<fpContext, fpSubscriptions, fpSendCallBack, fpSends, fpRan, fpUnsubFns,
                   fpUnsubCalled, increment, lastCall, ncalls>>
    /\ UNCHANGED <<facadeOnly, gateVars>>

NextMock ==
    \/ \E override \in Overrides, sendCallBack \in {NoValue, "jest.fn"} :
          MockInit(override, sendCallBack)
    \/ \E eventType \in MockEventTypes, handler \in Handlers : MockOn(eventType, handler)
    \/ \E fn \in fpUnsubFns : MockUnsubscribe(fn)
    \/ \E eventType \in MockEventTypes : MockSend(eventType, EmptyData)
    \/ \E eventType \in MockEventTypes : MockEvent(eventType, EmptyData)
    \/ \E definition \in ModalDefinitions : ModalCall("open", definition)
    \/ \E key \in ModalKeys : ModalCall("close", key)
    \/ ModalResume

SpecMock == Init /\ [][NextMock]_vars

(***************************************************************************)
(* The event gate: isEventEnabled over the feature registry                *)
(***************************************************************************)
\* the feature types and event lists the registries are made of
GateFeatures == {DASHBOARD_COG_MENU, MODALS}
GateEventLists == {<<>>, <<DASHBOARD_COG_MENU_CLICK>>, <<RELOAD_FRAME>>,
                   <<DASHBOARD_COG_MENU_CLICK, RELOAD_FRAME>>,
                   <<RELOAD_FRAME, RELOAD_FRAME>>}
FeatureDefinitions == [type : GateFeatures, events : GateEventLists]

\* registries of no, one and two definitions
Registries ==
    {<<>>} \cup {<<d>> : d \in FeatureDefinitions}
           \cup {<<d1, d2>> : d1 \in FeatureDefinitions, d2 \in FeatureDefinitions}

\* the always-enabled sets: the context-change event, alone or with another one
EnabledEventSets == {{CONTEXT_CHANGE}, {CONTEXT_CHANGE, DASHBOARD_COG_MENU_CLICK}}

\* lists of enabled features of up to MaxFeatures entries
RECURSIVE FeatureLists(_)
FeatureLists(n) ==
    IF n = 0 THEN {<<>>}
    ELSE LET shorter == FeatureLists(n - 1)
         IN shorter \cup {Append(l, f) : l \in shorter, f \in GateFeatures \cup {APP_ROUTING}}

InitGate ==
    /\ InitClient
    /\ InitMock
    /\ features \in Registries
    /\ enabledEvents \in EnabledEventSets
    /\ memo = NoMemo
    /\ gateCall = NoCall

\* featureTypesByEvent.set(e, new Set()) on every event: the set starts over
AddFeatureTypeFresh(map, e, type) ==
    [x \in (DOMAIN map) \cup {e} |-> IF x = e THEN {type} ELSE map[x]]

\* if (!map.has(e)) map.set(e, new Set()); map.get(e).add(feature.type)
AddFeatureType(map, e, type) ==
    [x \in (DOMAIN map) \cup {e} |->
        IF x = e THEN (IF e \in DOMAIN map THEN map[e] ELSE {}) \cup {type} ELSE map[x]]

\* feature.events.forEach(e => ...)
RECURSIVE AddEvents(_, _, _)
AddEvents(map, type, events) ==
    IF events = <<>> THEN map
    ELSE AddEvents(AddFeatureType(map, Head(events), type), type, Tail(events))

\* features.forEach(feature => ...), from an empty Map
RECURSIVE BuildFeatureTypesByEvent(_, _)
BuildFeatureTypesByEvent(map, defs) ==
    IF defs = <<>> THEN map
    ELSE BuildFeatureTypesByEvent(AddEvents(map, Head(defs).type, Head(defs).events),
                                  Tail(defs))

\* memoize: the getter runs on the first call, its value is kept afterwards
Memoize(m, getterValue) ==
    IF ~m.executed THEN [executed |-> TRUE, value |-> getterValue] ELSE m

\* isEventEnabled(event, enabledFeatures), given the Map of getFeatureTypesByEvent
isEventEnabled(event, enabledFeatures, featureTypesByEvent) ==
    IF event \in enabledEvents THEN TRUE
    ELSE IF event \notin DOMAIN featureTypesByEvent THEN FALSE
    ELSE \E i \in 1..Len(enabledFeatures) : enabledFeatures[i] \in featureTypesByEvent[event]

\* a call of isEventEnabled: getFeatureTypesByEvent() is reached only past the
\* always-enabled test
IsEventEnabledCall(event, enabledFeatures) ==
    /\ memo' = IF event \in enabledEvents THEN memo
               ELSE Memoize(memo, BuildFeatureTypesByEvent(<<>>, features))
    /\ gateCall' = [op |-> "isEventEnabled", event |-> event,
                    enabledFeatures |-> enabledFeatures,
                    result |-> isEventEnabled(event, enabledFeatures, memo'.value)]
    /\ UNCHANGED <<features, enabledEvents>>
    /\ UNCHANGED <<clientVars, mockVars>>

NextGate ==
    \E event \in EventTypes, enabledFeatures \in FeatureLists(MaxFeatures) :
        IsEventEnabledCall(event, enabledFeatures)

SpecGate == InitGate /\ [][NextGate]_vars

(***************************************************************************)
(* Properties of the facade                                                *)
(***************************************************************************)
\* what the facade holds and does, apart from the record of the calls
facadeState == <<sdkClient, instances, handshake, context, increment, subscriptions,
                 initQueue, ctxQueue, sent, invoked, rejections>>

\* some manager lists the event type, read off the managers' declarations
ListedToSubscribe(eventType) ==
    \E i \in 1..Len(capabilityManagers) :
        \E k \in 1..Len(capabilityManagers[i].eventsToSubscribe) :
            capabilityManagers[i].eventsToSubscribe[k] = eventType

ListedToTrigger(eventType) ==
    \E i \in 1..Len(capabilityManagers) :
        \E k \in 1..Len(capabilityManagers[i].eventsToTrigger) :
            capabilityManagers[i].eventsToTrigger[k] = eventType

\* the feature of the manager that triggers the event type is granted by the context
Granted(eventType, ctx) ==
    \E i \in 1..Len(capabilityManagers) :
        /\ \E k \in 1..Len(capabilityManagers[i].eventsToTrigger) :
               capabilityManagers[i].eventsToTrigger[k] = eventType
        /\ \E f \in 1..Len(ctx.app.features) :
               ctx.app.features[f] = capabilityManagers[i].type

C2_ContextChangeReplaces ==
    \A i \in 1..Len(gets) :
        (gets[i].done /\ gets[i].change # NoChange) => gets[i].value = gets[i].change

\* C3: the SDK's init() has created at most one client, and every call of it
\* returned that one instance.
C3_Singleton ==
    /\ Len(instances) <= 1
    /\ sdkClient \in {0, 1}
    /\ lastCall.op = "init" => (lastCall.ret = 1 /\ sdkClient = 1 /\ Len(instances) = 1)

\* a second init() call, with options other than those the client was made with
C3_Witness ==
    /\ lastCall.op = "init"
    /\ ncalls >= 2
    /\ instances[1].host = STAGE
    /\ lastCall.options.host = "PROD"

\* C8: on() does not throw; for an event type no manager lists in
\* eventsToSubscribe it logs an error, registers nothing, changes nothing and
\* returns a function whose call changes nothing; otherwise it returns the
\* manager's unsubscribe function of the registration it has just added.
C8_OnNeverThrows ==
    [][ /\ (ncalls' # ncalls /\ lastCall'.op = "on") =>
             /\ lastCall'.threw = FALSE
             /\ IF ListedToSubscribe(lastCall'.eventType)
                THEN /\ lastCall'.ret.kind = "unsubscribe"
                     /\ lastCall'.logged = NoValue
                     /\ \A s \in subscriptions : s.id # lastCall'.ret.id
                     /\ \E s \in subscriptions' :
                           /\ s.id = lastCall'.ret.id
                           /\ s.eventType = lastCall'.eventType
                           /\ s.handler = lastCall'.handler
                           /\ SubscribesTo(s.eventType, capabilityManagers[s.manager])
                           /\ subscriptions' = subscriptions \cup {s}
                ELSE /\ lastCall'.ret = NoopFn
                     /\ lastCall'.logged = "Unknown event type"
                     /\ UNCHANGED facadeState
        /\ (ncalls' # ncalls /\ lastCall'.op = "unsubscribe" /\ lastCall'.fn = NoopFn) =>
             /\ lastCall'.threw = FALSE
             /\ UNCHANGED facadeState
      ]_vars

\* the function returned for an unknown event type has been called twice, with
\* registrations present, before the handshake has completed
C8_Witness ==
    /\ lastCall.op = "unsubscribe"
    /\ lastCall.fn = NoopFn
    /\ unsubCalled = <<NoopFn, NoopFn>>
    /\ subscriptions # {}
    /\ handshake = "pending"

\* C9: triggerEvent with an event type no manager lists in eventsToTrigger logs
\* an error and does nothing else: it does not throw, no manager is called,
\* nothing is sent, and the context and the registrations stay as they were.
C9_UnknownTriggerIsNoop ==
    [][ (/\ ncalls' # ncalls
         /\ lastCall'.op = "triggerEvent"
         /\ ~ListedToTrigger(lastCall'.eventType)) =>
             /\ lastCall'.threw = FALSE
             /\ lastCall'.logged = "Unknown event type"
             /\ UNCHANGED facadeState
      ]_vars

\* triggerEvent of an event type that is only subscribable, with a registration
\* present and the context resolved
C9_Witness ==
    /\ lastCall.op = "triggerEvent"
    /\ ~ListedToTrigger(lastCall.eventType)
    /\ ListedToSubscribe(lastCall.eventType)
    /\ subscriptions # {}
    /\ context.state = "RESOLVED"

\* C10, as claimed: a triggerEvent call of a recognised event type whose
\* feature the resolved context does not grant ends with an error at the caller.
C10_ErrorReachesCaller ==
    (/\ lastCall.op = "triggerEvent"
     /\ ListedToTrigger(lastCall.eventType)
     /\ context.state = "RESOLVED"
     /\ ~Granted(lastCall.eventType, context.value)) => lastCall.threw = TRUE

\* the triggerEvent calls the managers have dealt with so far
TriggersDone ==
    LET waiting == {k \in 1..Len(ctxQueue) : ctxQueue[k].kind = "triggerEvent"}
    IN SubSeq(triggered, 1, Len(triggered) - Cardinality(waiting))

RECURSIVE SentOf(_, _)
SentOf(calls, ctx) ==
    IF calls = <<>> THEN <<>>
    ELSE (IF Granted(Head(calls).eventType, ctx) THEN <<Head(calls)>> ELSE <<>>)
         \o SentOf(Tail(calls), ctx)

RECURSIVE RejectedOf(_, _)
RejectedOf(calls, ctx) ==
    IF calls = <<>> THEN <<>>
    ELSE (IF Granted(Head(calls).eventType, ctx) THEN <<>>
          ELSE <<[error |-> "CapabilityNotEnabledError", eventType |-> Head(calls).eventType]>>)
         \o RejectedOf(Tail(calls), ctx)

\* C10, amended: triggerEvent returns to its caller without an error; while the
\* context is pending nothing is sent; once it is resolved the transport has
\* received exactly the (eventType, data) of the calls whose feature the context
\* grants, in order, and each other call has ended in a
\* CapabilityNotEnabledError on a promise the caller does not hold.
C10_ErrorStaysInManager ==
    /\ lastCall.op = "triggerEvent" => (lastCall.threw = FALSE /\ lastCall.ret = NoValue)
    /\ IF context.state = "RESOLVED"
       THEN /\ sent = SentOf(TriggersDone, context.value)
            /\ rejections = RejectedOf(TriggersDone, context.value)
       ELSE sent = <<>> /\ rejections = <<>>

\* a triggerEvent call has returned and its manager has failed for the feature
C10_Witness ==
    /\ lastCall.op = "triggerEvent"
    /\ rejections # <<>>
    /\ ~Granted(rejections[1].eventType, context.value)


\* the manager's tasks that wait for the context, in the order they were queued
WaitingTasks(kind) ==
    LET idx == {i \in 1..Len(ctxQueue) : ctxQueue[i].kind = kind}
    IN [i \in idx |-> ctxQueue[i]]

\* C11: on and triggerEvent are accepted before the handshake: the on() that
\* has just returned left its registration with the manager and the
\* triggerEvent that has just returned left its request with the manager,
\* whatever the state of the handshake. No handler has run and nothing has
\* been sent while the handshake is pending or the context is undelivered.
C11_NoHandlerBeforeContext ==
    /\ (lastCall.op = "on" /\ ListedToSubscribe(lastCall.eventType)) =>
           \E s \in subscriptions : /\ s.id = lastCall.ret.id
                                    /\ s.eventType = lastCall.eventType
                                    /\ s.handler = lastCall.handler
    /\ (lastCall.op = "triggerEvent" /\ ListedToTrigger(lastCall.eventType)
            /\ context.state = "PENDING") =>
           /\ ctxQueue # <<>>
           /\ ctxQueue[Len(ctxQueue)].kind = "triggerEvent"
           /\ ctxQueue[Len(ctxQueue)].eventType = lastCall.eventType
    /\ (invoked # <<>> \/ sent # <<>>) =>
           /\ handshake = "resolved"
           /\ context.state = "RESOLVED"
           /\ delivered # <<>>

\* a handler registered while the handshake was pending, and an event of the
\* host that arrived for it, are held back: the handshake is still pending
C11_Witness ==
    /\ handshake = "pending"
    /\ lastCall.op = "on"
    /\ subscriptions # {}
    /\ initQueue # <<>>
    /\ \E i \in DOMAIN WaitingTasks("handleEvent") :
           \E s \in subscriptions : s.eventType = ctxQueue[i].eventType
    /\ invoked = <<>>

\* the feature of the manager that subscribes to the event type is granted by the context
GrantedToSubscribe(eventType, ctx) ==
    \E i \in 1..Len(capabilityManagers) :
        /\ \E k \in 1..Len(capabilityManagers[i].eventsToSubscribe) :
               capabilityManagers[i].eventsToSubscribe[k] = eventType
        /\ \E f \in 1..Len(ctx.app.features) :
               ctx.app.features[f] = capabilityManagers[i].type

\* C13: every handler that has run was run for an event whose manager's
\* feature is in the resolved context; an inbound event for a feature the
\* context does not grant runs no handler and raises no
\* CapabilityNotEnabledError: the only such errors are those of triggerEvent
\* calls, and handleEvent itself returns normally.
C13_DisabledFeatureSilent ==
    /\ \A k \in 1..Len(invoked) :
           /\ context.state = "RESOLVED"
           /\ GrantedToSubscribe(invoked[k].eventType, context.value)
    /\ \A k \in 1..Len(rejections) : ListedToTrigger(rejections[k].eventType)
    /\ Len(rejections) <= Len(triggered)
    /\ lastCall.op = "handleEvent" => lastCall.threw = FALSE

\* an event arrived for a registered handler, its manager has dealt with it
\* under a context without the feature, and nothing ran and nothing failed
C13_Witness ==
    /\ context.state = "RESOLVED"
    /\ lastCall.op = "handleEvent"
    /\ ListedToSubscribe(lastCall.eventType)
    /\ ~GrantedToSubscribe(lastCall.eventType, context.value)
    /\ \E s \in subscriptions : s.eventType = lastCall.eventType
    /\ ctxQueue = <<>>
    /\ invoked = <<>>
    /\ rejections = <<>>

\* C14: the context resolver is one-shot: once it is RESOLVED no step changes
\* its state or its value, whatever init the host makes afterwards, and the
\* only step that changes a PENDING resolver resolves it with the context of
\* the init that is resuming.
C14_ResolverOneShot ==
    [][ /\ context.state = "RESOLVED" => context' = context
        /\ (context.state = "PENDING" /\ context'.state # "PENDING") =>
               /\ initQueue # <<>>
               /\ context'.state = "RESOLVED"
               /\ context'.value = Head(initQueue)
      ]_vars

\* the host has made a second init with another context and the resolver
\* still holds the first
C14_Witness ==
    /\ Len(delivered) >= 2
    /\ delivered[2] # delivered[1]
    /\ context.state = "RESOLVED"
    /\ context.value = delivered[1]

\* C15: the context is never resolved before the handshake has completed:
\* while the handshake is pending the resolver is PENDING, no context counts
\* as delivered and no getContext() call has completed, however many init
\* calls of the host are waiting; a resolved context is the one supplied by
\* the first init that got past the handshake.
C15_ContextAfterHandshake ==
    /\ handshake = "pending" =>
           /\ context.state = "PENDING"
           /\ delivered = <<>>
           /\ \A i \in 1..Len(gets) : ~gets[i].done
    /\ context.state = "RESOLVED" =>
           /\ handshake = "resolved"
           /\ delivered # <<>>
           /\ context.value = delivered[1]

\* the host has called init while the handshake is pending and a getContext()
\* call is waiting: the resolver is still PENDING
C15_Witness ==
    /\ handshake = "pending"
    /\ lastCall.op = "hostInit"
    /\ initQueue = <<lastCall.context>>
    /\ gets # <<>>
    /\ context.state = "PENDING"

\* the positions of the inbound events that wait in the managers
WaitingEvents == {i \in 1..Len(ctxQueue) : ctxQueue[i].kind = "handleEvent"}

\* C16: inbound events reach the managers in the order handleEvent received
\* them: the events that wait are numbered in the order of their arrival, the
\* handler invocations follow that numbering, every event whose handlers have
\* run arrived before every event that still waits, and the event handleEvent
\* has just accepted is the newest of the waiting ones.
C16_DispatchInDeliveryOrder ==
    /\ \A i, j \in WaitingEvents : i < j => ctxQueue[i].seq < ctxQueue[j].seq
    /\ \A k \in 1..Len(invoked) :
           /\ k < Len(invoked) => invoked[k].seq <= invoked[k + 1].seq
           /\ \A i \in WaitingEvents : invoked[k].seq < ctxQueue[i].seq
    /\ \A i \in WaitingEvents : ctxQueue[i].seq <= received
    /\ (lastCall.op = "handleEvent" /\ lastCall.logged = NoValue /\ WaitingEvents # {}) =>
           \E i \in WaitingEvents : ctxQueue[i].seq = received

\* two inbound events arrived and the handlers have run for both, for the
\* first one first
C16_Witness ==
    /\ received = 2
    /\ Len(invoked) >= 2
    /\ invoked[1].seq = 1
    /\ invoked[Len(invoked)].seq = 2
    /\ ctxQueue = <<>>

\* C17: a manager checks its feature against the current context: once a
\* context-change event has come in, the context a manager reads on its next
\* handleEvent or triggerEvent is the one that event brought, and it is the
\* context getContext() yields.
C17_ManagerReadsCurrentContext ==
    lastRead # NoRead =>
        /\ lastRead.change # NoChange => lastRead.context = lastRead.change
        /\ lastRead.context = context.value

\* C18: an inbound event of the context-change type is taken by the context
\* replacement before any manager is looked up: handleEvent finds a route for
\* it, and what is read afterwards is the context the event brought.
C18_ContextChangeRoutedFirst ==
    (lastCall.op = "handleEvent" /\ lastCall.eventType = CONTEXT_CHANGE
        /\ lastChange # NoChange) =>
        /\ lastCall.logged = NoValue
        /\ context.value = lastCall.data

\* C20: once the handshake is established and the host has called init, every
\* getContext() call made so far completes; and a call completes only then:
\* while the handshake is pending or no init has been delivered every call is
\* still waiting, and a call that completes yields a context, never a failure.
C20_ContextLiveness ==
    /\ [](\A i \in 1..Len(gets) :
              gets[i].done => /\ handshake = "resolved"
                              /\ delivered # <<>>
                              /\ gets[i].value \in Contexts)
    /\ (handshake = "resolved" /\ (initQueue # <<>> \/ delivered # <<>>))
           ~> (\A i \in 1..Len(gets) : gets[i].done)

\* a getContext() call made before the handshake has completed after the host
\* cooperated
C20_Witness ==
    /\ handshake = "resolved"
    /\ initQueue = <<>>
    /\ Len(delivered) = 1
    /\ gets # <<>>
    /\ gets[1].before
    /\ \A i \in 1..Len(gets) : gets[i].done

(***************************************************************************)
(* Properties of the mock transport and of the modal client                *)
(***************************************************************************)
\* the context's feature list names the modals feature
HasModals(ctx) == \E f \in 1..Len(ctx.app.features) : ctx.app.features[f] = MODALS

\* a payload with a key that is not empty
ValidPayload(arg) ==
    IF arg.type = "string" THEN arg.value # "" ELSE arg.key \notin {NoValue, ""}

\* the request() calls made for the i-th modal call
RequestsOf(i) == {k \in 1..Len(fpRequests) : fpRequests[k].call = i}

\* C4: a modal open / close call that has ended under a context without the
\* modals feature was rejected (with CapabilityNotEnabledError when its payload
\* is valid) and made no request; a call with a valid payload that has ended
\* under a context with the feature succeeded and made exactly one request, of
\* the expected type and data; a call still pending has made no request.
C4_CapabilityGate ==
    \A i \in 1..Len(modalCalls) :
        LET c == modalCalls[i] IN
        /\ c.state = "pending" => RequestsOf(i) = {}
        /\ (c.state # "pending" /\ ValidPayload(c.arg)) => fpContext.state = "RESOLVED"
        /\ (c.state # "pending" /\ fpContext.state = "RESOLVED"
              /\ ~HasModals(fpContext.value)) =>
               /\ c.state = "rejected"
               /\ RequestsOf(i) = {}
               /\ ValidPayload(c.arg) => c.error = "CapabilityNotEnabledError"
        /\ (c.state # "pending" /\ fpContext.state = "RESOLVED"
              /\ HasModals(fpContext.value) /\ ValidPayload(c.arg)) =>
               /\ c.state = "resolved"
               /\ Cardinality(RequestsOf(i)) = 1
               /\ \A k \in RequestsOf(i) :
                     IF c.op = "open"
                     THEN /\ fpRequests[k].eventType = OPEN_MODAL
                          /\ fpRequests[k].data = [definition |-> c.arg]
                     ELSE /\ fpRequests[k].eventType = CLOSE_MODAL
                          /\ fpRequests[k].data = c.arg.value

\* an open and a close call, both with a valid payload, have been rejected
\* because the context does not grant the modals feature
C4_Witness ==
    \E i, j \in 1..Len(modalCalls) :
        /\ modalCalls[i].op = "open" /\ modalCalls[j].op = "close"
        /\ ValidPayload(modalCalls[i].arg) /\ ValidPayload(modalCalls[j].arg)
        /\ modalCalls[i].error = "CapabilityNotEnabledError"
        /\ modalCalls[j].error = "CapabilityNotEnabledError"

\* C5: a modal.open call whose definition has no key or an empty key never
\* reaches request(); once it has ended it was rejected, and with a
\* validation error when the context grants the modals feature.
C5_MalformedNeverSent ==
    \A i \in 1..Len(modalCalls) :
        LET c == modalCalls[i] IN
        (c.arg.type = "object" /\ c.arg.key \in {NoValue, ""}) =>
            /\ RequestsOf(i) = {}
            /\ c.state # "resolved"
            /\ c.state = "rejected" =>
                  c.error \in {"ValidationError", "CapabilityNotEnabledError"}
            /\ (c.state = "rejected" /\ fpContext.state = "RESOLVED"
                  /\ HasModals(fpContext.value)) => c.error = "ValidationError"

\* a definition without a key and one with an empty key have both been
\* rejected while the context grants the modals feature
C5_Witness ==
    /\ fpContext.state = "RESOLVED"
    /\ HasModals(fpContext.value)
    /\ \E i, j \in 1..Len(modalCalls) :
          /\ modalCalls[i].arg.type = "object" /\ modalCalls[j].arg.type = "object"
          /\ modalCalls[i].arg.key = NoValue /\ modalCalls[j].arg.key = ""
          /\ modalCalls[i].error = "ValidationError"
          /\ modalCalls[j].error = "ValidationError"

\* the unsubscribe function has been called before
CalledBefore(fn) == \E k \in 1..Len(fpUnsubCalled) : fpUnsubCalled[k] = fn

\* C7: a call of an unsubscribe function leaves no registration under its id,
\* a repeated call of it leaves the subscriptions exactly as they were, and a
\* dispatch runs no handler whose unsubscribe function has been called.
C7_UnsubscribeIdempotent ==
    [][ /\ (ncalls' # ncalls /\ lastCall'.op = "mock.unsubscribe") =>
             /\ \A r \in fpSubscriptions'[lastCall'.fn.eventType].handlers :
                    r.id # lastCall'.fn.id
             /\ CalledBefore(lastCall'.fn) => fpSubscriptions' = fpSubscriptions
        /\ (ncalls' # ncalls /\ lastCall'.op = "mock.mockEvent") =>
             \A k \in 1..Len(lastCall'.ran) :
                 ~CalledBefore(MockUnsubscribeFn(lastCall'.ran[k].eventType,
                                                 lastCall'.ran[k].id))
      ]_vars

\* an unsubscribe function has been called twice and an event of its type has
\* been dispatched afterwards
C7_Witness ==
    /\ lastCall.op = "mock.mockEvent"
    /\ Len(fpUnsubCalled) = 2
    /\ fpUnsubCalled[1] = fpUnsubCalled[2]
    /\ fpUnsubCalled[1].eventType = lastCall.eventType


\* the ids of the handlers registered with the mock for an event type
RegisteredIds(eventType) == {r.id : r \in fpSubscriptions[eventType].handlers}

IssuedIds(eventType) == {fn.id : fn \in {f \in fpUnsubFns : f.eventType = eventType}}

UnsubscribedIds(eventType) ==
    {fpUnsubCalled[k].id : k \in {n \in 1..Len(fpUnsubCalled) :
                                     fpUnsubCalled[n].eventType = eventType}}

\* C19: registrations are independent: no two on() calls got the same id, the
\* registrations of an event type are exactly those made for it whose own
\* unsubscribe function has not been called, and a dispatch runs every one of
\* them.
C19_RegistrationsIndependent ==
    /\ \A f, g \in fpUnsubFns : f.id = g.id => f = g
    /\ \A e \in MockEventTypes : RegisteredIds(e) = IssuedIds(e) \ UnsubscribedIds(e)
    /\ lastCall.op = "mock.mockEvent" =>
           \A id \in RegisteredIds(lastCall.eventType) :
               \E k \in 1..Len(lastCall.ran) : lastCall.ran[k].id = id

(***************************************************************************)
(* Properties of the event gate                                            *)
(***************************************************************************)
\* the list of the types of all registered features
RegisteredFeatures == [i \in 1..Len(features) |-> features[i].type]

\* the event is in the event list of a definition of a feature of the list
UnlockedBy(event, enabledFeatures) ==
    \E f \in 1..Len(enabledFeatures) :
        \E d \in 1..Len(features) :
            /\ features[d].type = enabledFeatures[f]
            /\ \E k \in 1..Len(features[d].events) : features[d].events[k] = event

\* C6: isEventEnabled(e, F) is true exactly when e is always enabled or a
\* feature of F has e in the event list of one of its definitions.
C6_GateIffUnlocked ==
    gateCall.op = "isEventEnabled" =>
        gateCall.result = (\/ gateCall.event \in enabledEvents
                           \/ UnlockedBy(gateCall.event, gateCall.enabledFeatures))

\* an event of no definition, not always enabled, asked for with the list of
\* all registered features of a registry of two features, after the Map was
\* built: the answer is false
C6_Witness ==
    /\ gateCall.op = "isEventEnabled"
    /\ gateCall.event = UNKNOWN_EVENT
    /\ Len(features) = 2
    /\ features[1].type # features[2].type
    /\ features[1].events # <<>>
    /\ gateCall.enabledFeatures = RegisteredFeatures
    /\ memo.executed
    /\ gateCall.result = FALSE

====
